---- MODULE Spec2Model ----
(***************************************************************************)
(* A model of igs.py, the interactive git status front-end: the file list  *)
(* with its cursor, the list and diff scroll state, and the debounced      *)
(* inotifywait watcher, driven by the main loop of GitTUI.run.             *)
(*                                                                         *)
(* The git executable, the file system, the terminal and the clock are     *)
(* the environment: every `git status --porcelain` call may return any     *)
(* well-formed porcelain output (or fail), every other git command may     *)
(* succeed or fail, the terminal may be resized, and file-system events    *)
(* arrive at any time.  Time is counted in units of 50 ms.                 *)
(***************************************************************************)
EXTENDS Integers, Sequences, FiniteSets, TLC

\* ------------------------------------------------------------------------
\* Bounds of the model
\* ------------------------------------------------------------------------

\* Number of distinct paths the working tree can report (Spec).
NumPaths == 2

\* Number of distinct paths the working tree can report in the runs with
\* the watcher armed (SpecWatch).
NumWatchPaths == 1

\* Largest terminal height (rows) the terminal is resized to.
MaxHeight == 6

\* Largest number of lines a diff can have.
MaxDiffLen == 1

\* Largest terminal height in the runs that scroll the list or a diff
\* (SpecList, SpecDiff).
MaxViewHeight == 7

\* Largest number of lines a diff can have in the runs that scroll a diff
\* (SpecDiff).
MaxViewDiffLen == 4

\* Last instant of the clock, in time units after StartTime.
MaxTime == 7

\* Longest time a status refresh takes, in time units.
MaxRefreshDur == 1

\* the longest time, in units of 50 ms, the user takes to answer the
\* confirmation dialog
MaxDialogWait == 3

\* ------------------------------------------------------------------------
\* Program constants (one time unit is 50 ms)
\* ------------------------------------------------------------------------

\* cooldown = 0.2 seconds
Cooldown == 4

\* self.stdscr.timeout(100): getch gives up after 100 ms
TickTimeout == 2

\* self.watcher_proc.wait(timeout=1): one second
GraceTimeout == 20

\* ------------------------------------------------------------------------
\* Python sequences: 0-based indexing with negative indices from the end
\* ------------------------------------------------------------------------

Min2(a, b) == IF a < b THEN a ELSE b

Max2(a, b) == IF a > b THEN a ELSE b

\* seq[i] raises IndexError unless -len <= i < len
PyIndexOK(seq, i) == -Len(seq) <= i /\ i < Len(seq)

PyIndex(seq, i) == IF i >= 0 THEN seq[i + 1] ELSE seq[Len(seq) + i + 1]

\* ------------------------------------------------------------------------
\* GitFile
\* ------------------------------------------------------------------------

GitFile(status, path, staged) == [status |-> status, path |-> path, staged |-> staged]

\* GitFile.key(); None is the empty tuple
Key(f) == <<f.path, f.staged>>

NoKey == <<>>

\* ------------------------------------------------------------------------
\* The status source: `git status --porcelain`
\* ------------------------------------------------------------------------

AllPaths == <<"a", "b", "c", "d">>

\* XY codes of one path.  "  " stands for a path with nothing to report,
\* which git leaves out of the output.
Codes == {<<" ", " ">>, <<"M", " ">>, <<" ", "M">>, <<"M", "M">>, <<"?", "?">>}

IsUntrackedLine(l) == l.x = "?"

\* The outputs git can print for a tree of n paths: one line per changed
\* path, tracked entries in path order followed by the untracked ones.
PorcelainOutputs(n) ==
    { LET all == [i \in 1..n |-> [x |-> asg[i][1], y |-> asg[i][2], path |-> AllPaths[i]]]
          tracked == SelectSeq(all, LAMBDA l : l.x # "?" /\ <<l.x, l.y>> # <<" ", " ">>)
          untracked == SelectSeq(all, IsUntrackedLine)
      IN  tracked \o untracked
      : asg \in [1..n -> Codes] }

\* (returncode, stdout lines) of one run of the status command
StatusResults(n) ==
    {[rc |-> 1, lines |-> <<>>]} \cup {[rc |-> 0, lines |-> o] : o \in PorcelainOutputs(n)}

\* the answers of the status query in a tree of NumPaths paths
AllResults == StatusResults(NumPaths)

\* the answers of the status query in a tree of NumWatchPaths paths
WatchResults == StatusResults(NumWatchPaths)

\* _status_char_to_name
StatusCharToName(char) ==
    CASE char = "M" -> "modified"
      [] char = "A" -> "new file"
      [] char = "D" -> "deleted"
      [] char = "R" -> "renamed"
      [] char = "C" -> "copied"
      [] char = "U" -> "updated"
      [] char = "?" -> "untracked"
      [] OTHER -> "modified"

\* parse_git_status, lines 221-224: the staged entry of one line
StagedEntry(l) ==
    IF l.x \notin {" ", "?"} THEN <<GitFile(StatusCharToName(l.x), l.path, TRUE)>> ELSE <<>>

\* parse_git_status, lines 226-232: the unstaged or untracked entry of one line
UnstagedEntry(l) ==
    IF l.y # " " \/ l.x = "?"
    THEN <<GitFile(IF l.x = "?" THEN "untracked" ELSE StatusCharToName(l.y), l.path, FALSE)>>
    ELSE <<>>

\* parse_git_status, lines 207-232: the records of the output lines
RECURSIVE ParseLines(_)
ParseLines(lines) ==
    IF lines = <<>> THEN <<>>
    ELSE StagedEntry(Head(lines)) \o UnstagedEntry(Head(lines)) \o ParseLines(Tail(lines))

\* mutant: a failed query empties the list
ParseGitStatus_ClearsOnFailure(res, oldFiles, oldMsg) ==
    IF res.rc # 0
    THEN [files |-> <<>>, msg |-> "Error: status"]
    ELSE [files |-> ParseLines(res.lines), msg |-> oldMsg]

\* parse_git_status: the new (files, status_message) given the old ones;
\* a failed query leaves files alone and reports the error
ParseGitStatus(res, oldFiles, oldMsg) ==
    IF res.rc # 0
    THEN [files |-> oldFiles, msg |-> "Error: status"]
    ELSE [files |-> ParseLines(res.lines), msg |-> oldMsg]

\* ------------------------------------------------------------------------
\* The flattened order
\* ------------------------------------------------------------------------

IsStaged(f) == f.staged

IsUnstagedTracked(f) == ~f.staged /\ f.status # "untracked"

IsUntracked(f) == f.status = "untracked"

IsUnstaged(f) == ~f.staged

\* mutant: the unstaged group does not leave the untracked records out
GetOrderedFiles_UntrackedTwice(fs) ==
    SelectSeq(fs, IsStaged) \o SelectSeq(fs, IsUnstaged) \o SelectSeq(fs, IsUntracked)

\* _get_ordered_files
GetOrderedFiles(fs) ==
    SelectSeq(fs, IsStaged) \o SelectSeq(fs, IsUnstagedTracked) \o SelectSeq(fs, IsUntracked)

\* ------------------------------------------------------------------------
\* State
\* ------------------------------------------------------------------------

VARIABLES
    files,                  \* self.files
    cursor_pos,             \* self.cursor_pos
    scroll_offset,          \* self.scroll_offset
    mode,                   \* self.mode
    diff_content,           \* self.diff_content: whose diff it is and its line count
    diff_scroll,            \* self.diff_scroll
    status_message,         \* self.status_message
    repo_root,              \* self.repo_root is set
    watch_enabled,          \* self.watch_enabled
    watcher_proc,           \* self.watcher_proc is set
    last_refresh_time,      \* self.last_refresh_time
    events_during_cooldown, \* self.events_during_cooldown
    height,                 \* rows of the terminal, stdscr.getmaxyx()
    now,                    \* the clock, time.time()
    pipe,                   \* stdout of inotifywait: "empty", "data" or "eof"
    pc,                     \* position in GitTUI.run
    last,                   \* what the step just taken did (its locals)
    last_event_time,        \* when the latest file-system event arrived
    events_since_refresh    \* an event arrived since the watcher last refreshed

vars == <<files, cursor_pos, scroll_offset, mode, diff_content, diff_scroll,
          status_message, repo_root, watch_enabled, watcher_proc,
          last_refresh_time, events_during_cooldown, height, now, pipe, pc,
          last, last_event_time, events_since_refresh>>

\* the fields the key handlers work on
ui == [files |-> files, cursor |-> cursor_pos, msg |-> status_message,
       mode |-> mode, dc |-> diff_content, ds |-> diff_scroll]

NoDiff == [key |-> NoKey, len |-> 0]

\* the locals of the step just taken: the handler, whether a record was
\* selected and found again, the commands run, the time waited for the
\* watcher to end, whether a command that changes the repository returned
\* non-zero, and whether the status query did
Note(op) == [op |-> op, sel |-> FALSE, found |-> FALSE, cmds |-> <<>>, waited |-> 0,
             failed |-> FALSE, qfail |-> FALSE]

\* a handler's outcome: the fields after it, whether it raised, the value
\* handle_input returns, and its locals
Done(st, note) == [st |-> st, raised |-> FALSE, cont |-> TRUE, note |-> note]

Raise(st, note) == [st |-> st, raised |-> TRUE, cont |-> TRUE, note |-> note]

\* ------------------------------------------------------------------------
\* Cursor placement
\* ------------------------------------------------------------------------

\* mutant: records are matched by path alone
KeyEq_PathOnly(f, k) == k # NoKey /\ f.path = k[1]

\* f.key() == key
KeyEq(f, k) == Key(f) = k

\* for i, f in enumerate(ordered): if f.key() == key  -- the first i, or -1
RECURSIVE FindKey(_, _, _)
FindKey(ordered, k, i) ==
    IF i >= Len(ordered) THEN -1
    ELSE IF KeyEq(ordered[i + 1], k) THEN i
    ELSE FindKey(ordered, k, i + 1)

\* mutant: no floor at 0
ClampCursor_NoFloor(c, n) == Min2(c, n - 1)

\* mutant: a key that is gone sends the cursor back to the top
ClampCursor_Reset(c, n) == 0

\* max(0, min(self.cursor_pos, len(ordered) - 1))
ClampCursor(c, n) == Max2(0, Min2(c, n - 1))

\* _refresh_status, lines 783-793: the cursor after the list is re-derived
RefreshCursor(old_key, c, ordered) ==
    IF old_key # NoKey
    THEN IF FindKey(ordered, old_key, 0) >= 0
         THEN FindKey(ordered, old_key, 0)
         ELSE ClampCursor(c, Len(ordered))
    ELSE 0

\* _refresh_status
RefreshStatus(st, res, op) ==
    LET old_files == GetOrderedFiles(st.files)
        selected == st.cursor < Len(old_files)
    IN  IF selected /\ ~PyIndexOK(old_files, st.cursor)
        THEN Raise(st, Note(op))
        ELSE LET old_key == IF selected THEN Key(PyIndex(old_files, st.cursor)) ELSE NoKey
                 p == ParseGitStatus(res, st.files, st.msg)
                 ordered == GetOrderedFiles(p.files)
             IN  Done([st EXCEPT !.files = p.files,
                                 !.cursor = RefreshCursor(old_key, st.cursor, ordered),
                                 !.msg = "Refreshed"],
                      [Note(op) EXCEPT !.sel = selected,
                                       !.found = FindKey(ordered, old_key, 0) >= 0,
                                       !.cmds = <<"status">>,
                                       !.qfail = res.rc # 0])

\* mutant: the key remembered is that of the toggled record itself
NextFileKey_Current(ordered, c) == Key(PyIndex(ordered, c))

\* _toggle_stage_current_file, lines 672-675: the key of the record below
NextFileKey(ordered, c) ==
    IF c + 1 < Len(ordered) THEN Key(PyIndex(ordered, c + 1)) ELSE NoKey

\* mutant: the cursor jumps to the last record
ToggleFallback_Last(c, n) == n - 1

\* _toggle_stage_current_file, line 697
ToggleFallback(c, n) == Min2(c, n - 1)

\* mutant: the position found for the next record is counted from 1
ToggleCursor_OneBased(next_key, c, ordered) ==
    IF Len(ordered) = 0 THEN 0
    ELSE IF next_key # NoKey /\ FindKey(ordered, next_key, 0) >= 0
         THEN FindKey(ordered, next_key, 0) + 1
         ELSE ToggleFallback(c, Len(ordered))

\* _toggle_stage_current_file, lines 684-697: the cursor after the toggle
ToggleCursor(next_key, c, ordered) ==
    IF Len(ordered) = 0 THEN 0
    ELSE IF next_key # NoKey /\ FindKey(ordered, next_key, 0) >= 0
         THEN FindKey(ordered, next_key, 0)
         ELSE ToggleFallback(c, Len(ordered))

\* stage_file / unstage_file: the command and the message it leaves
StageCommand(file) == IF file.staged THEN "reset" ELSE "add"

StageMessage(file, ok) ==
    IF file.staged
    THEN (IF ok THEN "Unstaged" ELSE "Error unstaging")
    ELSE (IF ok THEN "Staged" ELSE "Error staging")

\* _toggle_stage_current_file
ToggleStageCurrentFile(st, e) ==
    LET ordered == GetOrderedFiles(st.files)
        note == Note("toggle")
    IN  IF st.cursor >= Len(ordered) THEN Done(st, note)
        ELSE IF ~PyIndexOK(ordered, st.cursor) THEN Raise(st, note)
        ELSE LET file == PyIndex(ordered, st.cursor)
                 next_key == NextFileKey(ordered, st.cursor)
                 p == ParseGitStatus(e.res, st.files, StageMessage(file, e.ok))
                 ordered2 == GetOrderedFiles(p.files)
             IN  Done([st EXCEPT !.files = p.files, !.msg = p.msg,
                                 !.cursor = ToggleCursor(next_key, st.cursor, ordered2)],
                      [note EXCEPT !.sel = TRUE,
                                   !.found = FindKey(ordered2, next_key, 0) >= 0,
                                   !.cmds = <<StageCommand(file), "status">>,
                                   !.failed = ~e.ok,
                                   !.qfail = e.res.rc # 0])

\* ------------------------------------------------------------------------
\* The other list-view handlers
\* ------------------------------------------------------------------------

\* get_file_diff: the diff of a record, e.len lines long
GetFileDiff(file, n) == [key |-> Key(file), len |-> n]

\* _handle_list_input, KEY_UP
CursorUp(st) ==
    Done(IF st.cursor > 0 THEN [st EXCEPT !.cursor = st.cursor - 1, !.msg = ""] ELSE st,
         Note("up"))

\* _handle_list_input, KEY_DOWN
CursorDown(st) ==
    Done(IF st.cursor < Len(st.files) - 1
         THEN [st EXCEPT !.cursor = st.cursor + 1, !.msg = ""] ELSE st,
         Note("down"))

\* _handle_list_input, KEY_PPAGE
PageUp(st, h) ==
    Done([st EXCEPT !.cursor = Max2(0, st.cursor - (h - 4)), !.msg = ""],
         Note("pgup"))

\* _handle_list_input, KEY_NPAGE
PageDown(st, h) ==
    Done([st EXCEPT !.cursor = Min2(Len(st.files) - 1, st.cursor + (h - 4)), !.msg = ""],
         Note("pgdn"))

\* mutant: the diff view opens whether or not a record is selected
ShowDiff_NoGuard(st, e) ==
    LET ordered == GetOrderedFiles(st.files)
        note == Note("diff")
    IN  IF st.cursor < Len(st.files) /\ st.cursor < Len(ordered)
        THEN IF ~PyIndexOK(ordered, st.cursor) THEN Raise(st, note)
             ELSE Done([st EXCEPT !.dc = GetFileDiff(PyIndex(ordered, st.cursor), e.dlen),
                                  !.ds = 0, !.mode = "diff", !.msg = ""],
                       [note EXCEPT !.cmds = <<"diff">>])
        ELSE Done([st EXCEPT !.dc = NoDiff, !.ds = 0, !.mode = "diff", !.msg = ""], note)

\* _handle_list_input, the diff / Enter key
ShowDiff(st, e) ==
    LET ordered == GetOrderedFiles(st.files)
        note == Note("diff")
    IN  IF st.cursor < Len(st.files) /\ st.cursor < Len(ordered)
        THEN IF ~PyIndexOK(ordered, st.cursor) THEN Raise(st, note)
             ELSE Done([st EXCEPT !.dc = GetFileDiff(PyIndex(ordered, st.cursor), e.dlen),
                                  !.ds = 0, !.mode = "diff", !.msg = ""],
                       [note EXCEPT !.cmds = <<"diff">>])
        ELSE Done(st, note)

\* mutant: the terminal is not taken back after the subprocess
HandOff_NoReacquire(cmd) == <<"endwin", cmd>>

\* show_commit_dialog, _chunk_stage_current_file: curses.endwin(), the
\* interactive subprocess, then curses.initscr() and _init_curses, on the
\* path where the subprocess ran and on the path where it raised
HandOff(cmd) == <<"endwin", cmd, "initscr">>

\* mutant: a successful commit leaves the cursor where it was
ShowCommitDialog_KeepsCursor(st, e) ==
    LET staged_files == SelectSeq(st.files, IsStaged)
        note == Note("commit")
    IN  IF staged_files = <<>>
        THEN Done([st EXCEPT !.msg = "No files staged for commit"], note)
        ELSE IF e.editor = "fail"
        THEN Done([st EXCEPT !.msg = "Error opening editor"],
                  [note EXCEPT !.cmds = HandOff("editor")])
        ELSE IF e.editor = "empty"
        THEN Done([st EXCEPT !.msg = "Commit cancelled (empty message)"],
                  [note EXCEPT !.cmds = HandOff("editor")])
        ELSE IF e.ok
        THEN LET p == ParseGitStatus(e.res, st.files, "Commit successful!")
             IN  Done([st EXCEPT !.files = p.files, !.msg = p.msg],
                      [note EXCEPT !.cmds = HandOff("editor") \o <<"commit", "status">>,
                                   !.qfail = e.res.rc # 0])
        ELSE Done([st EXCEPT !.msg = "Commit failed"],
                  [note EXCEPT !.cmds = HandOff("editor") \o <<"commit">>, !.failed = TRUE])

\* show_commit_dialog
ShowCommitDialog(st, e) ==
    LET staged_files == SelectSeq(st.files, IsStaged)
        note == Note("commit")
    IN  IF staged_files = <<>>
        THEN Done([st EXCEPT !.msg = "No files staged for commit"], note)
        ELSE IF e.editor = "fail"
        THEN Done([st EXCEPT !.msg = "Error opening editor"],
                  [note EXCEPT !.cmds = HandOff("editor")])
        ELSE IF e.editor = "empty"
        THEN Done([st EXCEPT !.msg = "Commit cancelled (empty message)"],
                  [note EXCEPT !.cmds = HandOff("editor")])
        ELSE IF e.ok
        THEN LET p == ParseGitStatus(e.res, st.files, "Commit successful!")
             IN  Done([st EXCEPT !.files = p.files, !.msg = p.msg, !.cursor = 0],
                      [note EXCEPT !.cmds = HandOff("editor") \o <<"commit", "status">>,
                                   !.qfail = e.res.rc # 0])
        ELSE Done([st EXCEPT !.msg = "Commit failed"],
                  [note EXCEPT !.cmds = HandOff("editor") \o <<"commit">>, !.failed = TRUE])

\* _chunk_stage_current_file
ChunkStageCurrentFile(st, e) ==
    LET ordered == GetOrderedFiles(st.files)
        note == Note("chunk")
    IN  IF st.cursor >= Len(ordered) THEN Done(st, note)
        ELSE IF ~PyIndexOK(ordered, st.cursor) THEN Raise(st, note)
        ELSE LET file == PyIndex(ordered, st.cursor)
             IN  IF file.staged
                 THEN Done([st EXCEPT !.msg = "File is already staged (unstage first)"], note)
                 ELSE IF file.status = "untracked"
                 THEN Done([st EXCEPT !.msg = "Cannot chunk-stage untracked file"], note)
                 ELSE IF ~e.started
                 THEN Done([st EXCEPT !.msg = "Error running git add -p"],
                           [note EXCEPT !.cmds = HandOff("add -p")])
                 ELSE LET p == ParseGitStatus(e.res, st.files, st.msg)
                          n == Len(GetOrderedFiles(p.files))
                      IN  Done([st EXCEPT !.files = p.files,
                                          !.cursor = Min2(st.cursor, Max2(0, n - 1)),
                                          !.msg = "Chunk staging done"],
                               [note EXCEPT !.cmds = HandOff("add -p") \o <<"status">>,
                                            !.qfail = e.res.rc # 0])

\* _stage_all: one add per modified record, their results ignored; e.ok
\* tells that every add returned zero
StageAll(st, e) ==
    LET modified == SelectSeq(st.files, IsUnstagedTracked)
        note == Note("stage_all")
    IN  IF modified = <<>>
        THEN Done([st EXCEPT !.msg = "No modified files to stage"], note)
        ELSE LET p == ParseGitStatus(e.res, st.files, st.msg)
             IN  Done([st EXCEPT !.files = p.files, !.cursor = 0, !.msg = "Staged file(s)"],
                      [note EXCEPT !.cmds = [i \in 1..Len(modified) |-> "add"] \o <<"status">>,
                                   !.failed = ~e.ok,
                                   !.qfail = e.res.rc # 0])

\* mutant: an untracked record is discarded like a modified one
DiscardCurrentFile_UntrackedToo(st, e) ==
    LET ordered == GetOrderedFiles(st.files)
        note == Note("discard")
    IN  IF st.cursor >= Len(ordered) THEN Done(st, note)
        ELSE IF ~PyIndexOK(ordered, st.cursor) THEN Raise(st, note)
        ELSE LET file == PyIndex(ordered, st.cursor)
             IN  IF file.staged
                 THEN Done([st EXCEPT !.msg = "Cannot discard staged changes (unstage first)"],
                           note)
                 ELSE IF ~e.confirm
                 THEN Done([st EXCEPT !.msg = "Cancelled"],
                           [note EXCEPT !.cmds = <<"confirm">>])
                 ELSE LET p == ParseGitStatus(e.res, st.files,
                                   IF e.ok THEN "Discarded changes" ELSE "Error discarding")
                          n == Len(GetOrderedFiles(p.files))
                      IN  Done([st EXCEPT !.files = p.files, !.msg = p.msg,
                                          !.cursor = IF n = 0 THEN 0 ELSE Min2(st.cursor, n - 1)],
                               [note EXCEPT !.cmds = <<"confirm", "restore", "status">>,
                                            !.failed = ~e.ok,
                                            !.qfail = e.res.rc # 0])

\* _discard_current_file
DiscardCurrentFile(st, e) ==
    LET ordered == GetOrderedFiles(st.files)
        note == Note("discard")
    IN  IF st.cursor >= Len(ordered) THEN Done(st, note)
        ELSE IF ~PyIndexOK(ordered, st.cursor) THEN Raise(st, note)
        ELSE LET file == PyIndex(ordered, st.cursor)
             IN  IF file.staged
                 THEN Done([st EXCEPT !.msg = "Cannot discard staged changes (unstage first)"],
                           note)
                 ELSE IF file.status = "untracked"
                 THEN Done([st EXCEPT !.msg = "Cannot discard untracked file"], note)
                 ELSE IF ~e.confirm
                 THEN Done([st EXCEPT !.msg = "Cancelled"],
                           [note EXCEPT !.cmds = <<"confirm">>])
                 ELSE LET p == ParseGitStatus(e.res, st.files,
                                   IF e.ok THEN "Discarded changes" ELSE "Error discarding")
                          n == Len(GetOrderedFiles(p.files))
                      IN  Done([st EXCEPT !.files = p.files, !.msg = p.msg,
                                          !.cursor = IF n = 0 THEN 0 ELSE Min2(st.cursor, n - 1)],
                               [note EXCEPT !.cmds = <<"confirm", "restore", "status">>,
                                            !.failed = ~e.ok,
                                            !.qfail = e.res.rc # 0])

\* ------------------------------------------------------------------------
\* The diff-view handlers
\* ------------------------------------------------------------------------

\* mutant: the record is looked up by its path alone
RECURSIVE FindPathStaged_PathOnly(_, _, _, _)
FindPathStaged_PathOnly(ordered, path, staged, i) ==
    IF i >= Len(ordered) THEN -1
    ELSE IF ordered[i + 1].path = path THEN i
    ELSE FindPathStaged_PathOnly(ordered, path, staged, i + 1)

\* for i, f in enumerate(ordered): if f.path == current_path and
\* f.staged == new_staged -- the first i, or -1
RECURSIVE FindPathStaged(_, _, _, _)
FindPathStaged(ordered, path, staged, i) ==
    IF i >= Len(ordered) THEN -1
    ELSE IF ordered[i + 1].path = path /\ ordered[i + 1].staged = staged THEN i
    ELSE FindPathStaged(ordered, path, staged, i + 1)

\* _toggle_stage_in_diff
ToggleStageInDiff(st, e) ==
    LET ordered == GetOrderedFiles(st.files)
        note == Note("toggle_diff")
    IN  IF st.cursor >= Len(ordered) THEN Done([st EXCEPT !.mode = "list"], note)
        ELSE IF ~PyIndexOK(ordered, st.cursor) THEN Raise(st, note)
        ELSE LET file == PyIndex(ordered, st.cursor)
                 p == ParseGitStatus(e.res, st.files, StageMessage(file, e.ok))
                 ordered2 == GetOrderedFiles(p.files)
                 i == FindPathStaged(ordered2, file.path, ~file.staged, 0)
                 note2 == [note EXCEPT !.sel = TRUE, !.found = i >= 0, !.failed = ~e.ok,
                                       !.qfail = e.res.rc # 0]
             IN  IF i >= 0
                 THEN Done([st EXCEPT !.files = p.files, !.msg = p.msg, !.cursor = i,
                                      !.dc = GetFileDiff(ordered2[i + 1], e.dlen), !.ds = 0],
                           [note2 EXCEPT !.cmds = <<StageCommand(file), "status", "diff">>])
                 ELSE Done([st EXCEPT !.files = p.files, !.msg = p.msg,
                                      !.cursor = ClampCursor(st.cursor, Len(ordered2)),
                                      !.mode = "list"],
                           [note2 EXCEPT !.cmds = <<StageCommand(file), "status">>])

\* _handle_diff_input
HandleDiffInput(st, key, e, h) ==
    LET viewable_lines == h - 3
        max_scroll == Max2(0, st.dc.len - viewable_lines)
        note == Note("diff_key")
    IN  CASE key \in {"q", "esc"} ->
                Done([st EXCEPT !.mode = "list", !.msg = ""], Note("diff_back"))
          [] key = "up" -> Done([st EXCEPT !.ds = Max2(0, st.ds - 1)], note)
          [] key = "down" -> Done([st EXCEPT !.ds = Min2(st.ds + 1, max_scroll)], note)
          [] key = "space" -> ToggleStageInDiff(st, e)
          [] key = "pgup" -> Done([st EXCEPT !.ds = Max2(0, st.ds - viewable_lines)], note)
          [] key = "pgdn" ->
                Done([st EXCEPT !.ds = Min2(st.ds + viewable_lines, max_scroll)], note)
          [] OTHER -> Done(st, note)

\* _handle_list_input
HandleListInput(st, key, e, h) ==
    CASE key = "q" -> [Done(st, Note("quit")) EXCEPT !.cont = FALSE]
      [] key = "up" -> CursorUp(st)
      [] key = "down" -> CursorDown(st)
      [] key = "pgup" -> PageUp(st, h)
      [] key = "pgdn" -> PageDown(st, h)
      [] key = "space" -> ToggleStageCurrentFile(st, e)
      [] key = "d" -> ShowDiff(st, e)
      [] key = "c" -> ShowCommitDialog(st, e)
      [] key = "r" -> RefreshStatus(st, e.res, "refresh")
      [] key = "a" -> StageAll(st, e)
      [] key = "p" -> ChunkStageCurrentFile(st, e)
      [] key = "u" -> DiscardCurrentFile(st, e)
      [] OTHER -> Done(st, Note("ignored"))

\* handle_input after getch returned `key`; "timeout" is getch's -1 and
\* "interrupt" a KeyboardInterrupt raised in getch
HandleKey(st, key, e, h) ==
    IF key = "interrupt" THEN [Done(st, Note("interrupt")) EXCEPT !.cont = FALSE]
    ELSE IF key = "timeout" THEN Done(st, Note("timeout"))
    ELSE IF st.mode = "list" THEN HandleListInput(st, key, e, h)
    ELSE IF st.mode = "diff" THEN HandleDiffInput(st, key, e, h)
    ELSE Done(st, Note("ignored"))

\* ------------------------------------------------------------------------
\* Rendering: draw_file_list and draw_diff_view
\* ------------------------------------------------------------------------

\* the content of a line that shows a text, not a record
NoFile == GitFile("", "", FALSE)

\* a header or blank line: no file index, no section start
PseudoLine == [isfile |-> FALSE, content |-> NoFile, fidx |-> -1, section |-> -1]

\* mutant: the file index starts again at 0 in every group
FileLines_FromZero(group, first, section) ==
    [i \in 1..Len(group) |->
        [isfile |-> TRUE, content |-> group[i], fidx |-> i - 1, section |-> section]]

\* the lines of one group: the record, file indices from `first`, all with
\* `section`
FileLines(group, first, section) ==
    [i \in 1..Len(group) |->
        [isfile |-> TRUE, content |-> group[i], fidx |-> first + i - 1, section |-> section]]

\* draw_file_list, lines 371-402: display_lines
DisplayLines(fs) ==
    LET staged_files == SelectSeq(fs, IsStaged)
        unstaged_files == SelectSeq(fs, IsUnstagedTracked)
        untracked_files == SelectSeq(fs, IsUntracked)
        s1 == 0
        l1 == <<PseudoLine>> \o FileLines(staged_files, 0, s1) \o <<PseudoLine>>
        s2 == Len(l1)
        l2 == l1 \o <<PseudoLine>>
                 \o FileLines(unstaged_files, Len(staged_files), s2) \o <<PseudoLine>>
        s3 == Len(l2)
    IN  l2 \o <<PseudoLine>>
           \o FileLines(untracked_files, Len(staged_files) + Len(unstaged_files), s3)

\* draw_file_list, lines 406-412: the first display line (0-based) whose
\* file index is the cursor, or -1
RECURSIVE CursorLineFrom(_, _, _)
CursorLineFrom(lines, c, i) ==
    IF i >= Len(lines) THEN -1
    ELSE IF lines[i + 1].isfile /\ lines[i + 1].fidx = c THEN i
    ELSE CursorLineFrom(lines, c, i + 1)

\* mutant: scrolling up stops at the line of the cursor
AdjustScroll_CursorLine(scroll, line, section, vh) ==
    IF line < scroll THEN line
    ELSE IF line >= scroll + vh THEN line - vh + 1
    ELSE scroll

\* draw_file_list, lines 414-418
AdjustScroll(scroll, line, section, vh) ==
    IF line < scroll THEN section
    ELSE IF line >= scroll + vh THEN line - vh + 1
    ELSE scroll

\* mutant: the scroll offset is only floored at 0
ClampScroll_NoUpper(scroll, total, vh) == Max2(0, scroll)

\* draw_file_list, line 420
ClampScroll(scroll, total, vh) == Max2(0, Min2(scroll, Max2(0, total - vh)))

\* draw_file_list: the scroll offset of the frame drawn
ListScroll(fs, c, scroll, h) ==
    LET visible_height == h - 4
        lines == DisplayLines(fs)
        found == CursorLineFrom(lines, c, 0)
        cursor_display_line == IF found >= 0 THEN found ELSE 0
        cursor_section_start == IF found >= 0 THEN lines[found + 1].section ELSE 0
    IN  ClampScroll(AdjustScroll(scroll, cursor_display_line, cursor_section_start,
                                 visible_height),
                    Len(lines), visible_height)

\* draw_file_list, line 415: the cursor line is above the window
ScrollsUp(fs, c, scroll) ==
    (IF CursorLineFrom(DisplayLines(fs), c, 0) >= 0
     THEN CursorLineFrom(DisplayLines(fs), c, 0) ELSE 0) < scroll

\* draw_diff_view, lines 464-466
\* draw_diff_view, lines 464-466
DiffScroll(dc, scroll, h) == Max2(0, Min2(scroll, Max2(0, dc.len - (h - 3))))

\* ------------------------------------------------------------------------
\* The watcher
\* ------------------------------------------------------------------------

\* mutant: the window is one time unit short
InCooldown_Short(t, lrt) == (t - lrt) < Cooldown - 1

\* in_cooldown = (now - self.last_refresh_time) < cooldown
InCooldown(t, lrt) == (t - lrt) < Cooldown

\* select() reports the pipe readable: unread events, or end of file
HasEvents(p) == p # "empty"

\* reading the pipe until it blocks: unread events are consumed, an end of
\* file stays
Drain(p) == IF p = "data" THEN "empty" ELSE p

\* mutant: events outside the cooldown are remembered, not refreshed
WatcherDecision_NoLeading(has_events, in_cooldown, pending) ==
    IF has_events THEN "swallow"
    ELSE IF pending /\ ~in_cooldown THEN "trailing" ELSE "idle"

\* mutant: events refresh at once, in the cooldown too
WatcherDecision_NoSwallow(has_events, in_cooldown, pending) ==
    IF has_events THEN "leading"
    ELSE IF pending /\ ~in_cooldown THEN "trailing" ELSE "idle"

\* mutant: remembered events are never refreshed
WatcherDecision_NoTrailing(has_events, in_cooldown, pending) ==
    IF has_events
    THEN (IF ~in_cooldown THEN "leading" ELSE "swallow")
    ELSE "idle"

\* _check_watcher, lines 141-154: what the call does
WatcherDecision(has_events, in_cooldown, pending) ==
    IF has_events
    THEN (IF ~in_cooldown THEN "leading" ELSE "swallow")
    ELSE IF pending /\ ~in_cooldown THEN "trailing" ELSE "idle"

\* ------------------------------------------------------------------------
\* Inputs of the environment
\* ------------------------------------------------------------------------

\* the clock when the program starts: time.time() is far beyond one
\* cooldown window, so the first check is never in cooldown
StartTime == Cooldown

EndTime == StartTime + MaxTime

Heights == {MaxHeight - 1, MaxHeight}

Keys == {"q", "up", "down", "pgup", "pgdn", "space", "d", "c", "r", "a", "p", "u",
         "esc", "timeout", "interrupt"}

\* the keys of a session that watches the tree: it waits, refreshes, toggles
\* and quits
WatchKeys == {"timeout", "r", "space", "q", "interrupt"}

\* the keys of a session that moves through the list, toggles and refreshes
ListKeys == {"up", "down", "pgup", "pgdn", "space", "r", "q"}

\* the keys a session that reads diffs presses in the list: the cursor is
\* left where it is
OpenKeys == {"d", "space", "q"}

\* the keys a session that reads diffs presses in the diff view
DiffKeys == {"esc", "up", "down", "pgup", "pgdn", "space"}

\* the keys of a session that reads diffs and discards changes while the
\* tree is watched
WatchDiffKeys == {"timeout", "d", "esc", "u", "q"}

\* the keys of a session that waits, refreshes, pages down and ends
LifecycleKeys == {"timeout", "r", "pgdn", "q", "interrupt"}

\* the heights of the terminal in the sessions that scroll
ViewHeights == (MaxViewHeight - 2)..MaxViewHeight

\* the heights of the terminal in the sessions that read diffs, down to
\* one row
DiffHeights == 1..MaxViewHeight

\* the lengths of the diffs git prints
DiffLens == 1..MaxDiffLen

\* the lengths of the diffs in the sessions that read diffs
ViewDiffLens == 1..MaxViewDiffLen

\* a failed status query
FailedStatus == [rc |-> 1, lines |-> <<>>]

\* what the collaborators answer while one key is handled: the status
\* query, the return code of the stage / unstage / restore / commit command,
\* the length of a diff, what the editor left, the answer to the confirm
\* dialog and how long it took to come, and whether `git add -p` could be
\* started.  Only the answers the
\* handler of `key` can ask for are varied.
NoAnswer == [res |-> FailedStatus, ok |-> TRUE, dlen |-> 1, editor |-> "text",
             confirm |-> TRUE, started |-> TRUE, dwait |-> 0]

\* show_confirm_dialog, lines 320-326: how long the loop around getch runs
\* until y or n is pressed; without the watcher getch blocks and time does
\* not matter
DialogWaits == IF watcher_proc THEN 0..MaxDialogWait ELSE {0}

EnvInputs(key, m, results, lens) ==
    CASE m # "list" /\ key # "space" -> {NoAnswer}
      [] key = "r" -> {[NoAnswer EXCEPT !.res = r] : r \in results}
      [] key = "a" -> {[NoAnswer EXCEPT !.res = r, !.ok = o] : r \in results, o \in BOOLEAN}
      [] key = "space" /\ m = "list" ->
            {[NoAnswer EXCEPT !.res = r, !.ok = o] : r \in results, o \in BOOLEAN}
      [] key = "space" /\ m # "list" ->
            {[NoAnswer EXCEPT !.res = r, !.ok = o, !.dlen = n] :
                r \in results, o \in BOOLEAN, n \in lens}
      [] key = "d" -> {[NoAnswer EXCEPT !.dlen = n] : n \in lens}
      [] key = "c" ->
            {[NoAnswer EXCEPT !.editor = x] : x \in {"fail", "empty"}}
            \cup {[NoAnswer EXCEPT !.ok = FALSE]}
            \cup {[NoAnswer EXCEPT !.res = r] : r \in results}
      [] key = "p" ->
            {[NoAnswer EXCEPT !.started = FALSE]}
            \cup {[NoAnswer EXCEPT !.res = r] : r \in results}
      [] key = "u" ->
            {[NoAnswer EXCEPT !.confirm = FALSE, !.dwait = w] : w \in DialogWaits}
            \cup {[NoAnswer EXCEPT !.res = r, !.ok = o, !.dwait = w] :
                     r \in results, o \in BOOLEAN, w \in DialogWaits}
      [] OTHER -> {NoAnswer}

\* how long getch waits before returning `key`
Waits(key) ==
    IF ~watcher_proc THEN {0}
    ELSE IF key = "timeout" THEN {TickTimeout}
    ELSE 0..(TickTimeout - 1)

\* ------------------------------------------------------------------------
\* Init: the state GitTUI.__init__ leaves
\* ------------------------------------------------------------------------

InitFields ==
    /\ files = <<>>
    /\ cursor_pos = 0
    /\ scroll_offset = 0
    /\ mode = "list"
    /\ diff_content = NoDiff
    /\ diff_scroll = 0
    /\ status_message \in {"", "Error: Not a git repository"}
    /\ repo_root = (status_message = "")
    /\ watcher_proc = FALSE
    /\ last_refresh_time = 0
    /\ events_during_cooldown = FALSE
    /\ now = StartTime
    /\ pipe = "empty"
    /\ pc = "start"
    /\ last = Note("init")
    /\ last_event_time = 0
    /\ events_since_refresh = FALSE

\* igs.py --no-watch, in a terminal of any of the heights
Init == InitFields /\ watch_enabled = FALSE /\ height \in Heights

\* igs.py --no-watch, in a terminal of any of the heights of ViewHeights
InitView == InitFields /\ watch_enabled = FALSE /\ height \in ViewHeights

\* igs.py --no-watch, in a terminal of any of the heights of DiffHeights
InitDiff == InitFields /\ watch_enabled = FALSE /\ height \in DiffHeights

\* igs.py with or without --no-watch, in a terminal of the largest height
InitEither == InitFields /\ watch_enabled \in BOOLEAN /\ height = MaxHeight

\* igs.py, in a terminal of the largest height
InitWatch == InitFields /\ watch_enabled = TRUE /\ height = MaxHeight

\* ------------------------------------------------------------------------
\* Actions: GitTUI.run
\* ------------------------------------------------------------------------

\* _stop_watcher, called by the finally clause of run
StopWatcher == watcher_proc' = FALSE

\* mutant: a watcher that does not exit in time is left running
StopCalls_NoKill(proc, exits) == IF proc THEN <<"terminate", "wait">> ELSE <<>>

\* _stop_watcher: the calls made on the watcher process; `exits` tells
\* that the process ends within the time wait allows
StopCalls(proc, exits) ==
    IF ~proc THEN <<>>
    ELSE IF exits THEN <<"terminate", "wait">>
    ELSE <<"terminate", "wait", "kill">>

\* _stop_watcher: how long wait(timeout=1) blocks: the process ends at once
\* or the timeout expires
StopWait(proc, exits) == IF proc /\ ~exits THEN GraceTimeout ELSE 0

\* the locals of a step that leaves the loop
Stopped(note, proc, exits) ==
    [note EXCEPT !.cmds = @ \o StopCalls(proc, exits), !.waited = StopWait(proc, exits)]

\* whether the watcher ends in time matters only when there is one
ExitOutcomes(proc) == IF proc THEN BOOLEAN ELSE {TRUE}

\* mutant: the watcher is started although watching is disabled
StartWatcher_IgnoresFlag(enabled, root, available) == root /\ available

\* _start_watcher: whether watcher_proc is set afterwards; `available`
\* tells that inotifywait is installed and could be started
StartWatcher(enabled, root, available) == enabled /\ root /\ available

\* run, lines 858-876: the first status query and the start of the watcher
Start(results) ==
    /\ pc = "start"
    /\ IF ~repo_root
       THEN /\ pc' = "done"
            /\ last' = Note("exit")
            /\ UNCHANGED <<files, status_message, watcher_proc>>
       ELSE \E res \in results, available \in BOOLEAN :
               \E p \in {ParseGitStatus(res, files, status_message)} :
                   /\ files' = p.files
                   /\ status_message' = IF p.files = <<>>
                                        THEN "No changes. Working directory clean."
                                        ELSE p.msg
                   /\ watcher_proc' = StartWatcher(watch_enabled, repo_root, available)
                   /\ pc' = "draw"
                   /\ last' = [Note("start") EXCEPT
                                 !.cmds = IF StartWatcher(watch_enabled, repo_root, available)
                                          THEN <<"status", "inotifywait">>
                                          ELSE <<"status">>]
    /\ UNCHANGED <<cursor_pos, scroll_offset, mode, diff_content, diff_scroll, repo_root,
                   watch_enabled, last_refresh_time, events_during_cooldown, height, now,
                   pipe, last_event_time, events_since_refresh>>

\* run, lines 880-883: one frame
Draw ==
    /\ pc = "draw"
    /\ pc' = "input"
    /\ IF mode = "list"
       THEN /\ scroll_offset' = ListScroll(files, cursor_pos, scroll_offset, height)
            /\ last' = Note(IF ScrollsUp(files, cursor_pos, scroll_offset)
                             THEN "draw_list_up" ELSE "draw_list")
            /\ UNCHANGED diff_scroll
       ELSE /\ diff_scroll' = DiffScroll(diff_content, diff_scroll, height)
            /\ last' = Note("draw_diff")
            /\ UNCHANGED scroll_offset
    /\ UNCHANGED <<files, cursor_pos, mode, diff_content, status_message, repo_root,
                   watch_enabled, watcher_proc, last_refresh_time, events_during_cooldown,
                   height, now, pipe, last_event_time, events_since_refresh>>

\* mutant: the refresh key restarts the cooldown and drops remembered events
KeepsWatcherState_RefreshRestarts ==
    IF last'.op = "refresh"
    THEN last_refresh_time' = now' /\ events_during_cooldown' = FALSE
    ELSE UNCHANGED <<last_refresh_time, events_during_cooldown>>

\* handle_input and every handler it calls, _refresh_status included, assign
\* neither last_refresh_time nor events_during_cooldown
KeepsWatcherState == UNCHANGED <<last_refresh_time, events_during_cooldown>>

\* the time the handler spends in the confirmation dialog
Elapsed(note, e) ==
    IF \E i \in 1..Len(note.cmds) : note.cmds[i] = "confirm" THEN e.dwait ELSE 0

\* run, line 885: handle_input, from getch to the handler's return
HandleInput(results, keys, lens) ==
    /\ pc = "input"
    /\ \E key \in keys :
         /\ key = "timeout" => watcher_proc
         /\ \E e \in EnvInputs(key, mode, results, lens), d \in Waits(key) :
              \E r \in {HandleKey(ui, key, e, height)} :
                  /\ now + d + Elapsed(r.note, e) <= EndTime
                  /\ now' = now + d + Elapsed(r.note, e)
                  /\ files' = r.st.files
                  /\ cursor_pos' = r.st.cursor
                  /\ status_message' = r.st.msg
                  /\ mode' = r.st.mode
                  /\ diff_content' = r.st.dc
                  /\ diff_scroll' = r.st.ds
                  /\ pc' = IF r.raised THEN "crashed"
                           ELSE IF r.cont THEN "check" ELSE "done"
                  /\ IF r.raised \/ ~r.cont
                     THEN /\ StopWatcher
                          /\ \E exits \in ExitOutcomes(watcher_proc) :
                                last' = Stopped(r.note, watcher_proc, exits)
                     ELSE /\ UNCHANGED watcher_proc
                          /\ last' = r.note
    /\ KeepsWatcherState
    /\ UNCHANGED <<scroll_offset, repo_root, watch_enabled, height, pipe,
                   last_event_time, events_since_refresh>>

\* run, line 888: _check_watcher
CheckWatcher(results) ==
    /\ pc = "check"
    /\ IF ~watcher_proc
       THEN /\ pc' = "draw"
            /\ last' = Note("check_off")
            /\ UNCHANGED <<files, cursor_pos, status_message, watcher_proc,
                           last_refresh_time, events_during_cooldown, now, pipe,
                           events_since_refresh>>
       ELSE LET in_cooldown == InCooldown(now, last_refresh_time)
                has_events == HasEvents(pipe)
                what == WatcherDecision(has_events, in_cooldown, events_during_cooldown)
            IN  /\ pipe' = Drain(pipe)
                /\ IF what \in {"leading", "trailing"}
                   THEN \E res \in results, dur \in 0..MaxRefreshDur :
                          \E r \in {RefreshStatus(ui, res, what)} :
                              /\ now + dur <= EndTime
                              /\ files' = r.st.files
                              /\ cursor_pos' = r.st.cursor
                              /\ status_message' = r.st.msg
                              /\ IF r.raised
                                 THEN /\ pc' = "crashed"
                                      /\ StopWatcher
                                      /\ \E exits \in ExitOutcomes(watcher_proc) :
                                            last' = Stopped(r.note, watcher_proc, exits)
                                      /\ UNCHANGED <<last_refresh_time,
                                                     events_during_cooldown, now,
                                                     events_since_refresh>>
                                 ELSE /\ pc' = "draw"
                                      /\ last' = r.note
                                      /\ now' = now + dur
                                      /\ last_refresh_time' = now + dur
                                      /\ events_during_cooldown' = FALSE
                                      /\ events_since_refresh' = FALSE
                                      /\ UNCHANGED watcher_proc
                   ELSE /\ pc' = "draw"
                        /\ last' = Note(what)
                        /\ events_during_cooldown' =
                              (IF what = "swallow" THEN TRUE ELSE events_during_cooldown)
                        /\ UNCHANGED <<files, cursor_pos, status_message, watcher_proc,
                                       last_refresh_time, now, events_since_refresh>>
    /\ UNCHANGED <<scroll_offset, mode, diff_content, diff_scroll, repo_root,
                   watch_enabled, height, last_event_time>>

\* ------------------------------------------------------------------------
\* Actions of the environment
\* ------------------------------------------------------------------------

\* the terminal is resized: curses takes the new size inside getch, which
\* returns KEY_RESIZE, a key no handler knows
ResizeTo(hs) ==
    /\ pc = "input"
    /\ \E h \in hs \ {height} : height' = h
    /\ pc' = "check"
    /\ last' = Note("resize")
    /\ UNCHANGED <<files, cursor_pos, scroll_offset, mode, diff_content, diff_scroll,
                   status_message, repo_root, watch_enabled, watcher_proc,
                   last_refresh_time, events_during_cooldown, now, pipe,
                   last_event_time, events_since_refresh>>

Resize == ResizeTo(Heights)

\* inotifywait writes an event to its stdout
FsEvent ==
    /\ pc \in {"input", "check"}
    /\ watcher_proc
    /\ pipe # "eof"
    /\ pipe' = "data"
    /\ last_event_time' = now
    /\ events_since_refresh' = TRUE
    /\ UNCHANGED <<files, cursor_pos, scroll_offset, mode, diff_content, diff_scroll,
                   status_message, repo_root, watch_enabled, watcher_proc,
                   last_refresh_time, events_during_cooldown, height, now, pc, last>>

\* inotifywait exits: its stdout reaches end of file
WatcherExit ==
    /\ pc = "input"
    /\ watcher_proc
    /\ pipe # "eof"
    /\ pipe' = "eof"
    /\ UNCHANGED <<files, cursor_pos, scroll_offset, mode, diff_content, diff_scroll,
                   status_message, repo_root, watch_enabled, watcher_proc,
                   last_refresh_time, events_during_cooldown, height, now, pc, last,
                   last_event_time, events_since_refresh>>

\* ------------------------------------------------------------------------
\* Specifications
\* ------------------------------------------------------------------------

Next ==
    \/ Start(AllResults)
    \/ Draw
    \/ HandleInput(AllResults, Keys, DiffLens)
    \/ CheckWatcher(AllResults)
    \/ Resize

\* the program run with --no-watch, the user staying in the list view
Spec == Init /\ [][Next]_vars

NextWatch ==
    \/ Start(WatchResults)
    \/ Draw
    \/ HandleInput(WatchResults, WatchKeys, DiffLens)
    \/ CheckWatcher(WatchResults)
    \/ FsEvent
    \/ WatcherExit

\* the program run with the watcher enabled in a terminal that keeps its
\* size, the user waiting, refreshing, toggling and quitting
SpecWatch == InitWatch /\ [][NextWatch]_vars

NextList ==
    \/ Start(AllResults)
    \/ Draw
    \/ HandleInput(AllResults, ListKeys, DiffLens)
    \/ CheckWatcher(AllResults)
    \/ ResizeTo(ViewHeights)

\* the program run with --no-watch in a terminal that is resized, the user
\* moving through the list, toggling and refreshing
SpecList == InitView /\ [][NextList]_vars

NextDiff ==
    \/ Start(WatchResults)
    \/ Draw
    \/ (mode = "list" /\ HandleInput(WatchResults, OpenKeys, ViewDiffLens))
    \/ (mode = "diff" /\ HandleInput(WatchResults, DiffKeys, ViewDiffLens))
    \/ CheckWatcher(WatchResults)
    \/ ResizeTo(DiffHeights)

\* the program run with --no-watch in a terminal that is resized, the user
\* opening, scrolling and toggling diffs
SpecDiff == InitDiff /\ [][NextDiff]_vars

NextWatchDiff ==
    \/ Start(WatchResults)
    \/ Draw
    \/ HandleInput(WatchResults, WatchDiffKeys, DiffLens)
    \/ CheckWatcher(WatchResults)
    \/ FsEvent

\* the program run with the watcher enabled, the user opening and closing
\* diffs and discarding changes while the tree changes
SpecWatchDiff == InitWatch /\ [][NextWatchDiff]_vars

NextLifecycle ==
    \/ Start(WatchResults)
    \/ Draw
    \/ HandleInput(WatchResults, LifecycleKeys, DiffLens)
    \/ CheckWatcher(WatchResults)
    \/ FsEvent

\* the program run with or without --no-watch, inotifywait installed or
\* not, from its start to its end
SpecLifecycle == InitEither /\ [][NextLifecycle]_vars

\* ------------------------------------------------------------------------
\* Vocabulary of the properties
\* ------------------------------------------------------------------------

\* the flattened list before and after a step
Ordered == GetOrderedFiles(files)

OrderedAfter == GetOrderedFiles(files')

\* the cursor selects a record of the list
Selected == 0 <= cursor_pos /\ cursor_pos < Len(Ordered)

SelectedKey == Key(Ordered[cursor_pos + 1])

\* a record lies below the selected one
HasBelow == cursor_pos + 1 < Len(Ordered)

BelowKey == Key(Ordered[cursor_pos + 2])

\* some record of seq has key k
HasKey(seq, k) == \E i \in 1..Len(seq) : Key(seq[i]) = k

\* c is the index (0-based) of the first record of seq with key k
IsFirstWithKey(seq, k, c) ==
    /\ 0 <= c /\ c < Len(seq)
    /\ Key(seq[c + 1]) = k
    /\ \A j \in 1..c : Key(seq[j]) # k

\* the steps that run _refresh_status: the refresh key, and the watcher
ManualRefreshStep == pc = "input" /\ last'.op = "refresh"

WatcherRefreshStep == pc = "check" /\ last'.op \in {"leading", "trailing"}

RefreshStep == ManualRefreshStep \/ WatcherRefreshStep

\* the step that runs _toggle_stage_current_file
ToggleStep == pc = "input" /\ last'.op = "toggle"

\* the group of a record: 1 staged, 2 unstaged and tracked, 3 untracked
Group(f) == IF f.staged THEN 1 ELSE IF f.status = "untracked" THEN 3 ELSE 2

\* the display line (0-based) of the record with index c: one heading
\* before the staged group, a blank line and a heading before each later one
LineOfRecord(fs, c) ==
    LET nStaged == Cardinality({i \in 1..Len(fs) : Group(fs[i]) = 1})
        nUnstaged == Cardinality({i \in 1..Len(fs) : Group(fs[i]) = 2})
    IN  c + 1 + (IF c >= nStaged THEN 2 ELSE 0) + (IF c >= nStaged + nUnstaged THEN 2 ELSE 0)

\* ------------------------------------------------------------------------
\* C1: whenever the list is non-empty the cursor is an index of it, and
\* whenever it is empty the cursor is 0.
\* Fails: Page Down on an empty list sets the cursor to -1.
\* ------------------------------------------------------------------------
C1_CursorInRange ==
    /\ files # <<>> => (0 <= cursor_pos /\ cursor_pos < Len(files))
    /\ files = <<>> => cursor_pos = 0

\* ------------------------------------------------------------------------
\* C2: a watcher-triggered refresh that follows an earlier one is performed
\* by a check whose `now` is at least one cooldown after the
\* last_refresh_time the earlier one recorded.
\* ------------------------------------------------------------------------
C2_RefreshesCooldownApart ==
    [][(WatcherRefreshStep /\ last_refresh_time # 0)
          => now - last_refresh_time >= Cooldown]_vars

\* a trailing refresh has been done; it follows a check in cooldown, hence
\* an earlier watcher-triggered refresh
C2_Witness ==
    /\ pc = "draw"
    /\ last.op = "trailing"
    /\ last_refresh_time >= StartTime + Cooldown

\* ------------------------------------------------------------------------
\* C3: the trailing refresh that follows events swallowed in cooldown
\* happens no later than one cooldown window after the last event.
\* Fails: the trailing refresh waits for the first check after the cooldown
\* that began at the previous refresh, which can be later.
\* ------------------------------------------------------------------------
C3_TrailingWithinCooldownOfLastEvent ==
    [][(pc = "check" /\ last'.op = "trailing") => now - last_event_time <= Cooldown]_vars

\* C3, second part: a watcher-triggered refresh happens only after an event
\* arrived since the previous one.
\* Fails: once inotifywait has exited every check finds the pipe readable.
C3_RefreshOnlyAfterNewEvent ==
    [][WatcherRefreshStep => events_since_refresh]_vars

\* ------------------------------------------------------------------------
\* C4: in the frame draw_file_list draws, the line of the selected record
\* lies within [scroll_offset, scroll_offset + visible_height - 1], for
\* every visible height >= 1.
\* Fails: scrolling up jumps to the section heading, which can leave the
\* selected record below the window.
\* ------------------------------------------------------------------------
C4_ScrollContainment ==
    [][(pc = "draw" /\ mode = "list" /\ Selected /\ height - 4 >= 1)
          => /\ scroll_offset' <= LineOfRecord(files, cursor_pos)
             /\ LineOfRecord(files, cursor_pos) <= scroll_offset' + (height - 4) - 1]_vars

\* ------------------------------------------------------------------------
\* C5: when a refresh re-derives the list and a record with the key
\* (path, staged) of the previously selected record exists, the cursor
\* becomes the index of the first such record.
\* ------------------------------------------------------------------------
C5_RefreshReanchors ==
    [][(RefreshStep /\ pc' # "crashed" /\ Selected /\ HasKey(OrderedAfter, SelectedKey))
          => IsFirstWithKey(OrderedAfter, SelectedKey, cursor_pos')]_vars

\* a refresh found the selected key again, next to a record of the same
\* path with the other staged flag
C5_Witness ==
    /\ pc = "check"
    /\ last.op = "refresh" /\ last.sel /\ last.found
    /\ Selected
    /\ \E i \in 1..Len(Ordered) :
          Ordered[i].path = SelectedKey[1] /\ Ordered[i].staged # SelectedKey[2]

\* ------------------------------------------------------------------------
\* C6: when a refresh re-derives the list and no record has the key of the
\* previously selected record, the cursor becomes
\* max(0, min(old cursor_pos, len(new records) - 1)).
\* ------------------------------------------------------------------------
C6_RefreshFallback ==
    [][(RefreshStep /\ pc' # "crashed" /\ Selected /\ ~HasKey(OrderedAfter, SelectedKey))
          => cursor_pos' = Max2(0, Min2(cursor_pos, Len(files') - 1))]_vars

\* a refresh did not find the selected key and clamped the cursor to the
\* last record of a shorter list
C6_Witness ==
    /\ pc = "check"
    /\ last.op = "refresh" /\ last.sel /\ ~last.found
    /\ cursor_pos >= 1
    /\ cursor_pos = Len(files) - 1

\* ------------------------------------------------------------------------
\* C7: for any prior cursor value a refresh completes and leaves
\* 0 <= cursor_pos < max(n, 1), n the length of the new list.
\* Fails: with the cursor at -1 on an empty list the refresh raises
\* IndexError.
\* ------------------------------------------------------------------------
C7_RefreshClamps ==
    [][RefreshStep
          => /\ pc' # "crashed"
             /\ 0 <= cursor_pos' /\ cursor_pos' < Max2(Len(files'), 1)]_vars

\* ------------------------------------------------------------------------
\* C8: the flattened order is a stable three-way partition of the records:
\* every record exactly once, staged before unstaged-tracked before
\* untracked, each group in source order.
\* ------------------------------------------------------------------------
C8_StablePartition ==
    /\ Len(Ordered) = Len(files)
    /\ \A i \in 1..Len(files) :
          Cardinality({j \in 1..Len(Ordered) : Ordered[j] = files[i]}) = 1
    /\ \A i, j \in 1..Len(Ordered) :
          i < j =>
             /\ Group(Ordered[i]) <= Group(Ordered[j])
             /\ Group(Ordered[i]) = Group(Ordered[j]) =>
                   \E a, b \in 1..Len(files) :
                      a < b /\ files[a] = Ordered[i] /\ files[b] = Ordered[j]

\* a list whose flattened order differs from the source order
C8_Witness ==
    /\ Len(files) >= 3
    /\ Ordered # files
    /\ \E i \in 1..Len(files) : Group(files[i]) = 1
    /\ \E i \in 1..Len(files) : Group(files[i]) = 2

\* ------------------------------------------------------------------------
\* C9: after the selected record is toggled in the list view, if the record
\* that was immediately below it still exists in the re-derived list, the
\* cursor is that record's new index.
\* ------------------------------------------------------------------------
C9_ToggleAdvances ==
    [][(ToggleStep /\ pc' # "crashed" /\ Selected /\ HasBelow
           /\ HasKey(OrderedAfter, BelowKey))
          => IsFirstWithKey(OrderedAfter, BelowKey, cursor_pos')]_vars

\* a toggle found the record that was below, at another index than the
\* cursor's
C9_Witness ==
    /\ pc = "check"
    /\ last.op = "toggle" /\ last.sel /\ last.found
    /\ Selected
    /\ cursor_pos >= 1

DiffToggleStep == pc = "input" /\ last'.op = "toggle_diff"

FlippedKey == <<SelectedKey[1], ~SelectedKey[2]>>

C11_DiffToggleTracksFile ==
    [][(DiffToggleStep /\ pc' # "crashed" /\ Selected)
          => IF HasKey(OrderedAfter, FlippedKey)
             THEN /\ IsFirstWithKey(OrderedAfter, FlippedKey, cursor_pos')
                  /\ mode' = "diff"
                  /\ diff_content'.key = FlippedKey
                  /\ diff_scroll' = 0
             ELSE /\ mode' = "list"
                  /\ 0 <= cursor_pos' /\ cursor_pos' < Max2(Len(files'), 1)]_vars

\* a toggle in the diff view followed the record into the staged group,
\* ahead of the record that was above it
C11_Witness ==
    /\ pc = "check"
    /\ last.op = "toggle_diff" /\ last.sel /\ last.found
    /\ mode = "diff"
    /\ Len(Ordered) = 2 /\ cursor_pos = 0
    /\ Ordered[1].path = "b" /\ Ordered[1].staged
    /\ Ordered[2].path = "a" /\ ~Ordered[2].staged
    /\ diff_content.key = <<"b", TRUE>>

\* ------------------------------------------------------------------------
\* C12: a refresh repeated against the record list the first one produced
\* completes and leaves the cursor where the first one put it.
\* ------------------------------------------------------------------------
AfterRefresh == pc \in {"check", "draw"} /\ last.op \in {"refresh", "leading", "trailing"}

C12_RefreshIdempotent ==
    AfterRefresh =>
        \A res \in AllResults :
            ParseGitStatus(res, files, status_message).files = files =>
                /\ ~RefreshStatus(ui, res, "refresh").raised
                /\ RefreshStatus(ui, res, "refresh").st.cursor = cursor_pos

\* a refresh left the cursor on a record below the first of a list of
\* three or more
C12_Witness ==
    /\ AfterRefresh
    /\ last.sel
    /\ Selected
    /\ cursor_pos >= 1
    /\ Len(files) >= 3

\* ------------------------------------------------------------------------
\* C13: the records are [a staged, b unstaged] with the cursor on b, and a
\* refresh or a toggle re-derives the list as [a staged, b staged].
\* ------------------------------------------------------------------------
IdentityExampleStep ==
    /\ RefreshStep \/ ToggleStep
    /\ pc' # "crashed"
    /\ Ordered = <<GitFile("modified", "a", TRUE), GitFile("modified", "b", FALSE)>>
    /\ cursor_pos = 1
    /\ OrderedAfter = <<GitFile("modified", "a", TRUE), GitFile("modified", "b", TRUE)>>

\* C13 as claimed: the cursor lands on index 0, not on index 1.
\* Fails: b's new index is 1, and that is where the cursor is.
C13_IdentityExampleIndexZero ==
    [][IdentityExampleStep => cursor_pos' = 0]_vars

\* C13 as amended: the cursor lands on index 1, b's new flattened index.
C13_IdentityExampleIndexOne ==
    [][IdentityExampleStep
          => /\ cursor_pos' = 1
             /\ Key(OrderedAfter[cursor_pos' + 1]) = <<"b", TRUE>>]_vars

\* the unstaged record b, last of the list, was staged by a toggle and the
\* list is now [a staged, b staged]
C13_Witness ==
    /\ pc = "check"
    /\ last.op = "toggle" /\ last.sel /\ ~last.found
    /\ last.cmds = <<"add", "status">>
    /\ Ordered = <<GitFile("modified", "a", TRUE), GitFile("modified", "b", TRUE)>>
    /\ cursor_pos = 1

\* ------------------------------------------------------------------------
\* C14: for a path that is both staged and unstaged (status line "MM a")
\* the flattened order is [staged a, unstaged a]; when the toggle of index
\* 0 unstages it and the re-derived list is the single unstaged entry, the
\* cursor is 0 and selects that entry.
\* ------------------------------------------------------------------------
PartiallyStaged == ParseLines(<<[x |-> "M", y |-> "M", path |-> "a"]>>)

C14_PartiallyStagedToggle ==
    [][(ToggleStep /\ pc' # "crashed" /\ files = PartiallyStaged /\ cursor_pos = 0)
          => /\ Ordered = <<GitFile("modified", "a", TRUE), GitFile("modified", "a", FALSE)>>
             /\ last'.cmds = <<"reset", "status">>
             /\ OrderedAfter = <<GitFile("modified", "a", FALSE)>>
                   => /\ cursor_pos' = 0
                      /\ Key(OrderedAfter[cursor_pos' + 1]) = <<"a", FALSE>>]_vars

\* a staged record was unstaged by a toggle, the record below it was found
\* again, and the list is the single unstaged entry of a
C14_Witness ==
    /\ pc = "check"
    /\ last.op = "toggle" /\ last.sel /\ last.found
    /\ last.cmds = <<"reset", "status">>
    /\ Ordered = <<GitFile("modified", "a", FALSE)>>
    /\ cursor_pos = 0

\* ------------------------------------------------------------------------
\* C15: after every render of the list view
\* 0 <= scroll_offset <= max(0, total_display_lines - visible_height),
\* whatever the records, the cursor, the prior scroll offset and the height
\* of the terminal.
\* ------------------------------------------------------------------------

\* three headings, two blank lines and one line per record
TotalLines(fs) == Len(fs) + 5

ScrollInBounds(s, fs, h) == 0 <= s /\ s <= Max2(0, TotalLines(fs) - (h - 4))

C15_ListScrollBound ==
    [][(pc = "draw" /\ mode = "list")
          => /\ ScrollInBounds(scroll_offset', files, height)
             /\ \A h \in 1..MaxViewHeight, s \in 0..(TotalLines(files) + 1) :
                   ScrollInBounds(ListScroll(files, cursor_pos, s, h), files, h)]_vars

\* a frame of the list was drawn with the last line of the list at the
\* bottom of the window
C15_Witness ==
    /\ pc = "input"
    /\ last.op = "draw_list"
    /\ scroll_offset >= 1
    /\ scroll_offset = TotalLines(files) - (height - 4)

\* ------------------------------------------------------------------------
\* C16: when a render finds the line of the selected record above
\* scroll_offset, scroll_offset becomes the line of the heading of that
\* record's group.
\* ------------------------------------------------------------------------

\* the display line (0-based) of the heading of the group of record c
HeaderLine(fs, c) ==
    LET nStaged == Cardinality({i \in 1..Len(fs) : Group(fs[i]) = 1})
        nUnstaged == Cardinality({i \in 1..Len(fs) : Group(fs[i]) = 2})
    IN  IF c < nStaged THEN 0
        ELSE IF c < nStaged + nUnstaged THEN nStaged + 2
        ELSE nStaged + nUnstaged + 4

UpwardScrollStep ==
    /\ pc = "draw" /\ mode = "list"
    /\ Selected
    /\ LineOfRecord(files, cursor_pos) < scroll_offset

\* C16 as claimed.
\* Fails: the final clamp of the render pulls scroll_offset below the
\* heading when the heading lies in the last visible_height - 1 lines.
C16_UpwardScrollToHeader ==
    [][UpwardScrollStep => scroll_offset' = HeaderLine(files, cursor_pos)]_vars

\* C16 as amended: scroll_offset becomes the smaller of the heading's line
\* and max(0, total_display_lines - visible_height), never the record's own
\* line, and the heading is on screen when a line is visible at all.
C16_UpwardScrollShowsHeader ==
    [][UpwardScrollStep
          => /\ scroll_offset' = Min2(HeaderLine(files, cursor_pos),
                                      Max2(0, TotalLines(files) - (height - 4)))
             /\ scroll_offset' < LineOfRecord(files, cursor_pos)
             /\ height - 4 >= 1
                   => /\ scroll_offset' <= HeaderLine(files, cursor_pos)
                      /\ HeaderLine(files, cursor_pos) <= scroll_offset' + (height - 4) - 1]_vars

\* a render scrolled up to the heading of a group below the staged one
C16_Witness ==
    /\ pc = "input"
    /\ last.op = "draw_list_up"
    /\ Selected
    /\ scroll_offset >= 2
    /\ scroll_offset = HeaderLine(files, cursor_pos)

\* ------------------------------------------------------------------------
\* C17: the watcher is started only when watching is enabled, a repository
\* root is known and inotifywait could be started; without a watcher no
\* message about it is left, a check changes nothing and runs no command,
\* and the refresh key still queries the status and re-derives the list.
\* ------------------------------------------------------------------------
C17_DegradedWatcher ==
    [][/\ pc = "start"
          => /\ watcher_proc' => (watch_enabled /\ repo_root /\ last'.cmds = <<"status", "inotifywait">>)
             /\ ~watcher_proc'
                   => status_message' \in {status_message, "Error: status",
                                           "No changes. Working directory clean."}
       /\ (pc = "check" /\ ~watcher_proc)
          => /\ UNCHANGED <<files, cursor_pos, scroll_offset, mode, diff_content,
                            diff_scroll, status_message, watcher_proc,
                            last_refresh_time, events_during_cooldown>>
             /\ last'.cmds = <<>>
       /\ (ManualRefreshStep /\ ~watcher_proc /\ pc' # "crashed")
          => /\ last'.cmds = <<"status">>
             /\ status_message' = "Refreshed"
             /\ \E res \in WatchResults : files' = ParseGitStatus(res, files, "").files
       /\ (~watch_enabled \/ ~repo_root) => ~watcher_proc'
      ]_vars

\* watching is enabled but inotifywait could not be started, and the
\* refresh key has re-derived a list that is not empty
C17_Witness ==
    /\ pc = "check"
    /\ last.op = "refresh"
    /\ watch_enabled /\ repo_root /\ ~watcher_proc
    /\ files # <<>>

\* ------------------------------------------------------------------------
\* C18: whenever the main loop is left while a watcher runs (quit key,
\* interrupt, or an exception raised in the loop) the watcher is terminated
\* and waited for, for no longer than one second; it is killed exactly when
\* that wait ran out; watcher_proc is then None; once watcher_proc is None no
\* watcher-triggered refresh happens, and after the exit nothing runs at all.
\* ------------------------------------------------------------------------
\* a step that leaves the main loop
ExitStep == pc \in {"input", "check"} /\ pc' \in {"done", "crashed"}

\* the last n calls of a step
LastCalls(cmds, n) == IF Len(cmds) < n THEN <<>> ELSE SubSeq(cmds, Len(cmds) - n + 1, Len(cmds))

C18_WatcherShutdown ==
    [][/\ (ExitStep /\ watcher_proc)
          => /\ ~watcher_proc'
             /\ last'.waited <= GraceTimeout
             /\ IF last'.waited = GraceTimeout
                THEN LastCalls(last'.cmds, 3) = <<"terminate", "wait", "kill">>
                ELSE LastCalls(last'.cmds, 2) = <<"terminate", "wait">>
       /\ pc' \in {"done", "crashed"} => ~watcher_proc'
       /\ ~watcher_proc => ~WatcherRefreshStep
       /\ pc \in {"done", "crashed"} => UNCHANGED vars
      ]_vars

\* an exception raised by a refresh has ended the loop while the watcher
\* ran, and the watcher had to be killed
C18_Witness ==
    /\ pc = "crashed"
    /\ watch_enabled /\ ~watcher_proc
    /\ last.waited = GraceTimeout
    /\ LastCalls(last.cmds, 3) = <<"terminate", "wait", "kill">>

\* ------------------------------------------------------------------------
\* C19: after every render of the diff view, and after every scroll key of
\* the diff view (up, down, page up, page down),
\* 0 <= diff_scroll <= max(0, len(diff_content) - visible_height).
\* ------------------------------------------------------------------------
\* draw_diff_view, lines 454 and 465: the largest offset
MaxDiffScroll(dc, h) == Max2(0, dc.len - (h - 3))

DiffScrollInBounds(s, dc, h) == 0 <= s /\ s <= MaxDiffScroll(dc, h)

\* a render of the diff view
DiffRenderStep == pc = "draw" /\ mode = "diff"

\* a key handled by _handle_diff_input that is not a toggle
DiffScrollKeyStep == pc = "input" /\ mode = "diff" /\ last'.op = "diff_key"

\* C19 as claimed.
\* Fails: in a terminal of fewer than three rows viewable_lines is negative,
\* so page down subtracts from diff_scroll and page up adds to it, neither
\* with a clamp on that side.
C19_DiffScrollBound ==
    [][(DiffRenderStep \/ DiffScrollKeyStep)
          => DiffScrollInBounds(diff_scroll', diff_content', height')]_vars

\* ------------------------------------------------------------------------
\* C20: whenever the diff view is shown, diff_content is the diff fetched for
\* the record at cursor_pos; and whenever a step taken in the diff view (a
\* toggle, a watcher-triggered refresh) leaves the view on another record,
\* that step fetches the diff of the new record and resets diff_scroll to 0.
\* ------------------------------------------------------------------------
\* the step stays in the diff view and the cursor ends on another record
DiffSelectionChanges ==
    /\ mode = "diff" /\ mode' = "diff"
    /\ Selected /\ Selected'
    /\ SelectedKey' # SelectedKey

\* some call of the step runs git diff
FetchesDiff(cmds) == \E i \in 1..Len(cmds) : cmds[i] = "diff"

\* C20 as claimed.
\* Fails: _check_watcher calls _refresh_status in the diff view too; the
\* refresh re-anchors or clamps cursor_pos and never touches diff_content or
\* diff_scroll, so the view keeps the diff of a record that is no longer the
\* selected one (or no longer in the list).
C20_DiffFollowsSelection ==
    [][/\ mode' = "diff" => (Selected' /\ diff_content'.key = SelectedKey')
       /\ DiffSelectionChanges
             => /\ FetchesDiff(last'.cmds)
                /\ diff_content'.key = SelectedKey'
                /\ diff_scroll' = 0
      ]_vars

\* ------------------------------------------------------------------------
\* C21: whenever a step runs the commit-message editor or `git add -p`, the
\* terminal has been released (endwin) before that call, and it has been
\* taken back (initscr) when the step ends, whether the subprocess ran or
\* could not be started.
\* ------------------------------------------------------------------------
\* the calls that start an interactive subprocess
Interactive == {"editor", "add -p"}

\* whether curses holds the terminal after the first n calls of a step
RECURSIVE TerminalHeld(_, _)
TerminalHeld(cmds, n) ==
    IF n = 0 THEN TRUE
    ELSE IF cmds[n] = "endwin" THEN FALSE
    ELSE IF cmds[n] = "initscr" THEN TRUE
    ELSE TerminalHeld(cmds, n - 1)

C21_TerminalHandOff ==
    [][/\ \A i \in 1..Len(last'.cmds) :
             last'.cmds[i] \in Interactive => ~TerminalHeld(last'.cmds, i - 1)
       /\ TerminalHeld(last'.cmds, Len(last'.cmds))
      ]_vars

\* the editor could not be started, and the terminal was taken back
C21_Witness ==
    /\ pc = "check"
    /\ last.op = "commit"
    /\ status_message = "Error opening editor"
    /\ last.cmds = <<"endwin", "editor", "initscr">>

\* ------------------------------------------------------------------------
\* C22: whenever a stage, unstage, discard or commit command of a step
\* returns non-zero (the adds of stage-all included), the status message
\* the step leaves reports that failure, and the step issues the command no
\* more often than one attempt does.
\* ------------------------------------------------------------------------
\* the messages that report a failed stage, unstage, discard or commit
FailureMessages == {"Error staging", "Error unstaging", "Error discarding", "Commit failed"}

\* the commands that change the index, the tree or the history
ChangeCommands == {"add", "reset", "restore", "commit"}

\* how many calls of a step run one of the commands of cs
RECURSIVE CountCalls(_, _)
CountCalls(cmds, cs) ==
    IF cmds = <<>> THEN 0
    ELSE (IF Head(cmds) \in cs THEN 1 ELSE 0) + CountCalls(Tail(cmds), cs)

\* the number of commands one attempt of the step issues
OneAttempt ==
    IF last'.op = "stage_all" THEN Len(SelectSeq(files, IsUnstagedTracked)) ELSE 1

\* C22 as claimed.
\* Fails: _stage_all ignores what its adds return and always leaves
\* "Staged N file(s)".
C22_FailureReported ==
    [][(last'.failed /\ pc' # "crashed")
          => /\ status_message' \in FailureMessages
             /\ CountCalls(last'.cmds, ChangeCommands) = OneAttempt
      ]_vars

\* ------------------------------------------------------------------------
\* C23: no key action and no watcher tick ends with an uncaught exception:
\* the loop never ends because a handler raised.
\* ------------------------------------------------------------------------
\* C23 as claimed.
\* Fails: Page Down on an empty list leaves cursor_pos = -1, and the
\* handlers that guard their index with cursor_pos < len(ordered) then
\* index the empty list.
C23_NoUncaughtException ==
    [][pc' # "crashed"]_vars

\* ------------------------------------------------------------------------
\* C24: while the watcher runs, every pass of handle_input that does not
\* end the loop returns within the input timeout of 100 ms, whether or not
\* a key was pressed, and is followed by a call of _check_watcher; this in
\* the list view, the diff view and the confirmation dialog.
\* ------------------------------------------------------------------------
\* a pass of handle_input while the watcher runs, the loop going on
TickStep == pc = "input" /\ watcher_proc /\ pc' = "check"

\* C24 as claimed.
\* Fails: show_confirm_dialog loops around getch until y or n is pressed;
\* each getch times out after 100 ms but the loop never calls
\* _check_watcher, so no check happens while the dialog is open.
C24_TickBounded ==
    [][/\ TickStep => now' - now <= TickTimeout
       /\ (pc = "input" /\ pc' \notin {"input", "done", "crashed"}) => pc' = "check"
      ]_vars

\* ------------------------------------------------------------------------
\* C25: a call of _check_watcher that finds the pipe readable outside the
\* cooldown (now - last_refresh_time >= Cooldown) and returns has run the
\* status query exactly once, has set last_refresh_time to a time not
\* before `now`, and leaves events_during_cooldown false; before any
\* refresh was recorded (last_refresh_time = 0) no check is in cooldown.
\* ------------------------------------------------------------------------
\* a call of _check_watcher, with a watcher, that returns
CheckStep == pc = "check" /\ watcher_proc /\ pc' = "draw"

C25_LeadingEdge ==
    [][/\ (CheckStep /\ pipe # "empty" /\ now - last_refresh_time >= Cooldown)
          => /\ last'.op = "leading"
             /\ CountCalls(last'.cmds, {"status"}) = 1
             /\ last_refresh_time' >= now
             /\ ~events_during_cooldown'
             /\ \E res \in WatchResults : files' = ParseGitStatus(res, files, "").files
       /\ (CheckStep /\ last_refresh_time = 0) => now - last_refresh_time >= Cooldown
      ]_vars

\* the first events after the start have been refreshed at once
C25_Witness ==
    /\ pc = "draw"
    /\ last.op = "leading"
    /\ last_refresh_time = StartTime
    /\ ~events_during_cooldown
    /\ files # <<>>

\* ------------------------------------------------------------------------
\* C26: a call of _check_watcher that finds the pipe readable inside the
\* cooldown runs no command, sets events_during_cooldown, and leaves files,
\* cursor_pos and last_refresh_time as they were.
\* ------------------------------------------------------------------------
C26_SwallowInCooldown ==
    [][(CheckStep /\ pipe # "empty" /\ now - last_refresh_time < Cooldown)
          => /\ last'.cmds = <<>>
             /\ events_during_cooldown'
             /\ UNCHANGED <<files, cursor_pos, last_refresh_time>>
      ]_vars

\* events were swallowed by a check made inside the cooldown of an
\* earlier refresh
C26_Witness ==
    /\ pc = "draw"
    /\ last.op = "swallow"
    /\ events_during_cooldown
    /\ last_refresh_time > 0
    /\ now - last_refresh_time < Cooldown

\* ------------------------------------------------------------------------
\* C27: a call of _check_watcher that finds nothing to read, with
\* events_during_cooldown set and the cooldown over, and returns has run
\* the status query exactly once, has cleared events_during_cooldown and
\* has set last_refresh_time to a time not before `now`; no call of
\* _check_watcher runs the status query more than once.
\* ------------------------------------------------------------------------
C27_TrailingStep ==
    [][/\ (CheckStep /\ pipe = "empty" /\ events_during_cooldown
             /\ now - last_refresh_time >= Cooldown)
          => /\ last'.op = "trailing"
             /\ CountCalls(last'.cmds, {"status"}) = 1
             /\ ~events_during_cooldown'
             /\ last_refresh_time' >= now
       /\ (pc = "check" /\ pc' # "check") => CountCalls(last'.cmds, {"status"}) <= 1
      ]_vars

\* the trailing refresh has been done, one cooldown or more after the
\* refresh that opened the window
C27_Witness ==
    /\ pc = "draw"
    /\ last.op = "trailing"
    /\ last.cmds = <<"status">>
    /\ ~events_during_cooldown
    /\ last_refresh_time = now

\* ------------------------------------------------------------------------
\* C28: last_refresh_time and events_during_cooldown are changed by calls
\* of _check_watcher only: every key handler (navigation, toggle, stage-all,
\* discard, chunk-stage, commit, the refresh key) leaves both as they were.
\* ------------------------------------------------------------------------
C28_WatcherStateOwnership ==
    [][pc # "check" => UNCHANGED <<last_refresh_time, events_during_cooldown>>]_vars

\* the refresh key was pressed inside the cooldown with events remembered,
\* and both are as they were
C28_Witness ==
    /\ pc = "check"
    /\ last.op = "refresh"
    /\ events_during_cooldown
    /\ last_refresh_time > 0
    /\ now - last_refresh_time < Cooldown

\* ------------------------------------------------------------------------
\* C29: a watcher-triggered refresh happens only when inotifywait has
\* delivered an event since the previous watcher-triggered refresh (or
\* since the start); with nothing further delivered, also after inotifywait
\* has exited, no watcher-triggered refresh happens.
\* ------------------------------------------------------------------------
\* C29 as claimed.
\* Fails: once inotifywait has exited its stdout is at end of file, select
\* reports it readable at every check, and has_events is set without any
\* event: a refresh follows every cooldown.
C29_RefreshOnlyOnEvents ==
    [][(pc = "check" /\ pc' # "check" /\ ~events_since_refresh)
          => (last'.op \notin {"leading", "trailing"}
              /\ CountCalls(last'.cmds, {"status"}) = 0)]_vars

\* ------------------------------------------------------------------------
\* C30: when the status query of a step that re-derives the list (refresh,
\* toggle, discard, stage-all, chunk-stage, commit) returns non-zero and
\* the step returns, files is exactly what it was, and cursor_pos is an
\* index of that list (0 when the list is empty).
\* ------------------------------------------------------------------------
\* a step whose status query failed and that returned
FailedQueryStep == last'.qfail /\ pc # pc' /\ pc' # "crashed"

C30_FailedQueryKeepsModel ==
    [][FailedQueryStep
          => /\ files' = files
             /\ files # <<>> => (0 <= cursor_pos' /\ cursor_pos' < Len(files))
             /\ files = <<>> => cursor_pos' = 0
      ]_vars

\* a toggle whose status query failed has left a list of two records as
\* it was and moved the cursor to the record below
C30_Witness ==
    /\ pc = "check"
    /\ last.op = "toggle"
    /\ last.qfail
    /\ Len(files) = 2
    /\ cursor_pos = 1
    /\ status_message = "Error: status"

\* ------------------------------------------------------------------------
\* C31: when the status query of a refresh (the refresh key, or a refresh
\* triggered by the watcher) fails, the status message left by that refresh
\* is the error of the query, not a message of success.
\* ------------------------------------------------------------------------
\* C31 as claimed.
\* Fails: _refresh_status ends with status_message = "Refreshed" whatever
\* parse_git_status did, so the error it reported is overwritten.
C31_RefreshReportsQueryFailure ==
    [][(RefreshStep /\ last'.qfail /\ pc' # "crashed")
          => status_message' = "Error: status"]_vars

\* ------------------------------------------------------------------------
\* C32: in every list the program reaches, each display line that shows a
\* record carries the index that record has in _get_ordered_files(), so the
\* line highlighted for cursor_pos shows the record the handlers take with
\* ordered[cursor_pos]; and the lines that show a record are as many as
\* len(files), the bound of the navigation keys.
\* ------------------------------------------------------------------------
\* the lines, among display_lines, that show a record
SelectableLines(lines) == {i \in 1..Len(lines) : lines[i].isfile}

C32_HighlightMatchesAction ==
    LET lines == DisplayLines(files)
        selectable == SelectableLines(lines)
        ordered == GetOrderedFiles(files)
    IN  /\ \A i \in selectable :
              /\ 0 <= lines[i].fidx /\ lines[i].fidx < Len(ordered)
              /\ ordered[lines[i].fidx + 1] = lines[i].content
        /\ \A i, j \in selectable : lines[i].fidx = lines[j].fidx => i = j
        /\ Cardinality(selectable) = Len(files)
        /\ Len(ordered) = Len(files)

\* a list of two records whose order in the view differs from the order
\* git reported them in has been drawn
C32_Witness ==
    /\ pc = "input"
    /\ last.op \in {"draw_list", "draw_list_up"}
    /\ Len(files) = 2
    /\ Ordered # files
    /\ Selected

\* ------------------------------------------------------------------------
\* C33: mode is always 'list' or 'diff'; the diff view is entered only from
\* the list view, by the diff / Enter key, with cursor_pos on a record of
\* the list; q or ESC in the diff view goes back to the list view and
\* leaves files and cursor_pos as they were, the loop going on; the quit
\* key ends the loop only in the list view.
\* ------------------------------------------------------------------------
C33_ModeStateMachine ==
    [][/\ mode' \in {"list", "diff"}
       /\ (mode = "list" /\ mode' = "diff")
             => (pc = "input" /\ last'.op = "diff" /\ Selected)
       /\ (pc = "input" /\ last'.op = "diff_back")
             => /\ mode = "diff" /\ mode' = "list"
                /\ UNCHANGED <<files, cursor_pos>>
                /\ pc' = "check"
       /\ (pc = "input" /\ pc' = "done")
             => /\ last'.op \in {"quit", "interrupt"}
                /\ last'.op = "quit" => mode = "list"
       /\ (pc = "input" /\ mode = "diff" /\ pc' \notin {"input", "crashed"})
             => (pc' = "done" => last'.op = "interrupt")
      ]_vars

\* the diff view was open on a record and q or ESC has gone back to the
\* list
C33_Witness ==
    /\ pc = "check"
    /\ last.op = "diff_back"
    /\ mode = "list"
    /\ Selected
    /\ diff_content.key = SelectedKey

\* ------------------------------------------------------------------------
\* C34: `git restore` and `git add -p` are started only on a selected
\* record that is unstaged and not untracked, `git restore` only after the
\* confirmation dialog and not when it was cancelled; when the record is
\* staged or untracked, when nothing is selected, or when the dialog was
\* cancelled, no command is run and files and cursor_pos are unchanged.
\* ------------------------------------------------------------------------
\* a pass of the discard or of the chunk-stage handler that returned
GuardedStep == pc = "input" /\ last'.op \in {"discard", "chunk"} /\ pc' # "crashed"

\* the selected record can be discarded and chunk-staged
SelectedIsModified == Selected /\ IsUnstagedTracked(Ordered[cursor_pos + 1])

C34_DiscardChunkGuards ==
    [][GuardedStep
          => /\ CountCalls(last'.cmds, {"restore", "add -p"}) > 0 => SelectedIsModified
             /\ CountCalls(last'.cmds, {"restore"}) > 0
                   => (Head(last'.cmds) = "confirm" /\ status_message' # "Cancelled")
             /\ (~SelectedIsModified \/ status_message' = "Cancelled")
                   => /\ CountCalls(last'.cmds, {"restore", "add -p", "status"}) = 0
                      /\ UNCHANGED <<files, cursor_pos>>
      ]_vars

\* the dialog of a discard was answered no: nothing was run
C34_Witness ==
    /\ pc = "check"
    /\ last.op = "discard"
    /\ last.cmds = <<"confirm">>
    /\ status_message = "Cancelled"
    /\ SelectedIsModified

\* ------------------------------------------------------------------------
\* C35: `git commit` is run only when some record is staged and the editor
\* left a message that is not empty; a commit that is cancelled (nothing
\* staged, editor not started, empty message) or that fails leaves files
\* and cursor_pos as they were; a commit that succeeds queries the status,
\* takes the list from it and sets cursor_pos to 0.
\* ------------------------------------------------------------------------
\* a pass of show_commit_dialog
CommitStep == pc = "input" /\ last'.op = "commit"

\* the messages of a commit that was not made
NoCommitMessages ==
    {"No files staged for commit", "Error opening editor",
     "Commit cancelled (empty message)", "Commit failed"}

C35_CommitOutcomes ==
    [][CommitStep
          => LET issued == CountCalls(last'.cmds, {"commit"}) > 0
             IN  /\ issued
                       => /\ SelectSeq(files, IsStaged) # <<>>
                          /\ CountCalls(last'.cmds, {"commit"}) = 1
                          /\ SubSeq(last'.cmds, 1, 3) = <<"endwin", "editor", "initscr">>
                          /\ status_message' # "Commit cancelled (empty message)"
                 /\ (~issued \/ last'.failed)
                       => /\ status_message' \in NoCommitMessages
                          /\ CountCalls(last'.cmds, {"status"}) = 0
                          /\ UNCHANGED <<files, cursor_pos>>
                 /\ (issued /\ ~last'.failed)
                       => /\ CountCalls(last'.cmds, {"status"}) = 1
                          /\ cursor_pos' = 0
                          /\ \E res \in AllResults :
                                files' = ParseGitStatus(res, files, "").files
      ]_vars

\* a commit made with the cursor on the second record has succeeded, and
\* the cursor is on the first record of the new list
C35_Witness ==
    /\ pc = "check"
    /\ last.op = "commit"
    /\ status_message = "Commit successful!"
    /\ cursor_pos = 0
    /\ files # <<>>

====
